---- MODULE Spec2Model ----
(***************************************************************************)
(* Model of bpmn.io_converter/simsam_bpmn_converter.py: the Simsam JSON    *)
(* -> BPMN converter (convert), its reverse (convert_bpmn_to_json) and     *)
(* the two text helpers make_xml_safe_id and escape_xml_thoroughly.        *)
(*                                                                         *)
(* A Python string is a sequence of characters; a character is a one-      *)
(* character TLA+ string, except that U+0001 and U+007F, which have no     *)
(* TLA+ literal, are written "x01" and "x7F".                              *)
(***************************************************************************)
EXTENDS Integers, Sequences, FiniteSets, TLC

VARIABLES
    text,         \* input of the text helpers
    idOut,        \* make_xml_safe_id(text)
    idOut2,       \* make_xml_safe_id(idOut)
    escOut,       \* escape_xml_thoroughly(text)
    escOut2,      \* escape_xml_thoroughly(escOut)
    files,        \* what convert finds at the paths of its four input files
    elements,     \* parsed elements.json
    connections,  \* parsed connections.json
    layout,       \* parsed layout file
    pc,           \* "start" | "converted" | "raised" | "reversed" | "parse_error" ("idle" when only the text helpers run)
    error,        \* the exception convert raised, "none" when it has not
    output,       \* what convert has left at the output path: "none" | "folder" | "file"
    bpmn,         \* the document convert wrote
    positions,    \* (x, y) computed for each element, by index, in _build_di
    out_elements, \* elements.json written by convert_bpmn_to_json
    out_connections, \* connections.json written by convert_bpmn_to_json
    out_layout    \* layout nodes written by convert_bpmn_to_json

textVars == <<text, idOut, idOut2, escOut, escOut2>>
convVars == <<files, elements, connections, layout, pc, error, output, bpmn, positions, out_elements, out_connections, out_layout>>
vars == <<text, idOut, idOut2, escOut, escOut2, files, elements, connections, layout, pc, error, output, bpmn, positions, out_elements, out_connections, out_layout>>

(***************************************************************************)
(* Bounds of the model                                                     *)
(***************************************************************************)
MaxLen == 3

\* marks a value that has not been computed yet
Unset == <<"UNSET">>

\* the state of the four input files: "ok" (parses as JSON), "absent" or
\* "unparsable"; the layout file may also hold JSON that is not an object
Files(e, c, v, l) == [elements |-> e, connections |-> c, variables |-> v, layout |-> l]
AllOk == Files("ok", "ok", "ok", "ok")

(***************************************************************************)
(* Characters and strings                                                  *)
(***************************************************************************)
Letters == {"a", "b", "c", "d", "e", "f", "g", "h", "i", "j", "k", "l", "m", "n", "o", "p", "q", "r", "s", "t", "u", "v", "w", "x", "y", "z", "A", "B", "C", "D", "E", "F", "G", "H", "I", "J", "K", "L", "M", "N", "O", "P", "Q", "R", "S", "T", "U", "V", "W", "X", "Y", "Z"}
Digits == {"0", "1", "2", "3", "4", "5", "6", "7", "8", "9"}
\* characters str.strip() removes and \s matches
Whitespace == {" ", "\t", "\n", "\r"}
\* the class [\x00-\x08\x0B-\x0C\x0E-\x1F\x7F]
ControlChars == {"x01", "x7F"}

isalpha(c) == c \in Letters
isdigit(c) == c \in Digits
\* the class [a-zA-Z0-9_.-]
IsIdChar(c) == isalpha(c) \/ isdigit(c) \/ c \in {"_", ".", "-"}

Strings(alphabet, n) == UNION {[1..k -> alphabet] : k \in 0..n}

RECURSIVE lstrip(_)
lstrip(s) == IF s # <<>> /\ Head(s) \in Whitespace THEN lstrip(Tail(s)) ELSE s

RECURSIVE rstrip(_)
rstrip(s) == IF s # <<>> /\ s[Len(s)] \in Whitespace THEN rstrip(SubSeq(s, 1, Len(s) - 1)) ELSE s

strip(s) == rstrip(lstrip(s))

\* str.replace(old, new): leftmost, non-overlapping occurrences
RECURSIVE replace(_, _, _)
replace(s, old, new) ==
    IF Len(s) < Len(old) THEN s
    ELSE IF SubSeq(s, 1, Len(old)) = old
         THEN new \o replace(SubSeq(s, Len(old) + 1, Len(s)), old, new)
         ELSE <<Head(s)>> \o replace(Tail(s), old, new)

RECURSIVE applyReplacements(_, _)
applyReplacements(s, reps) ==
    IF reps = <<>> THEN s
    ELSE applyReplacements(replace(s, Head(reps)[1], Head(reps)[2]), Tail(reps))

replacements ==
    << <<<<"&">>, <<"&", "a", "m", "p", ";">>>>,
       <<<<"<">>, <<"&", "l", "t", ";">>>>,
       <<<<">">>, <<"&", "g", "t", ";">>>>,
       <<<<"\"">>, <<"&", "q", "u", "o", "t", ";">>>>,
       <<<<"'">>, <<"&", "a", "p", "o", "s", ";">>>>,
       <<<<"\r", "\n">>, <<" ">>>>,
       <<<<"\n">>, <<" ">>>>,
       <<<<"\r">>, <<" ">>>>,
       <<<<"\t">>, <<" ">>>> >>

\* re.sub(r'[\x00-\x08\x0B-\x0C\x0E-\x1F\x7F]', '', text)
removeControl(s) == SelectSeq(s, LAMBDA c : c \notin ControlChars)

\* a plausible slip: '>' is left alone and the result is not stripped
escape_xml_no_gt(t) ==
    IF t = <<>> THEN <<>>
    ELSE removeControl(applyReplacements(t, <<replacements[1], replacements[2], replacements[4], replacements[5], replacements[6], replacements[7], replacements[8], replacements[9]>>))

escape_xml_thoroughly(t) ==
    IF t = <<>> THEN <<>>
    ELSE strip(removeControl(applyReplacements(t, replacements)))

element_1 == <<"e", "l", "e", "m", "e", "n", "t", "_", "1">>

\* a plausible slip: the 'el_' prefix is only given to ids that start with a digit
make_xml_safe_id_digit_only(s) ==
    IF s = <<>> THEN element_1
    ELSE LET stripped == strip(s)
             safe_id == [i \in 1..Len(stripped) |-> IF IsIdChar(stripped[i]) THEN stripped[i] ELSE "_"]
             prefixed == IF safe_id # <<>> /\ isdigit(safe_id[1])
                         THEN <<"e", "l", "_">> \o safe_id ELSE safe_id
         IN  IF prefixed # <<>> THEN prefixed ELSE element_1

make_xml_safe_id(s) ==
    IF s = <<>> THEN element_1
    ELSE LET stripped == strip(s)
             safe_id == [i \in 1..Len(stripped) |-> IF IsIdChar(stripped[i]) THEN stripped[i] ELSE "_"]
             prefixed == IF safe_id # <<>> /\ ~(isalpha(safe_id[1]) \/ safe_id[1] = "_")
                         THEN <<"e", "l", "_">> \o safe_id ELSE safe_id
         IN  IF prefixed # <<>> THEN prefixed ELSE element_1

(***************************************************************************)
(* The text helpers applied to every string over TextAlphabet              *)
(***************************************************************************)
TextAlphabet == {"a", "1", "_", ".", "-", " ", "\n", "\r", "\t", "x01", "x7F", "&", "<", ">", "\"", "'", ";"}

ConvIdle ==
    /\ files = AllOk
    /\ elements = <<>>
    /\ connections = <<>>
    /\ layout = <<>>
    /\ pc = "idle"
    /\ error = "none"
    /\ output = "none"
    /\ bpmn = Unset
    /\ positions = <<>>
    /\ out_elements = Unset
    /\ out_connections = Unset
    /\ out_layout = Unset

InitText ==
    /\ text \in Strings(TextAlphabet, MaxLen)
    /\ idOut = Unset
    /\ idOut2 = Unset
    /\ escOut = Unset
    /\ escOut2 = Unset
    /\ ConvIdle

MakeSafeId ==
    /\ idOut = Unset
    /\ idOut' = make_xml_safe_id(text)
    /\ UNCHANGED <<text, idOut2, escOut, escOut2>>
    /\ UNCHANGED convVars

MakeSafeIdAgain ==
    /\ idOut # Unset
    /\ idOut2 = Unset
    /\ idOut2' = make_xml_safe_id(idOut)
    /\ UNCHANGED <<text, idOut, escOut, escOut2>>
    /\ UNCHANGED convVars

EscapeXml ==
    /\ escOut = Unset
    /\ escOut' = escape_xml_thoroughly(text)
    /\ UNCHANGED <<text, idOut, idOut2, escOut2>>
    /\ UNCHANGED convVars

EscapeXmlAgain ==
    /\ escOut # Unset
    /\ escOut2 = Unset
    /\ escOut2' = escape_xml_thoroughly(escOut)
    /\ UNCHANGED <<text, idOut, idOut2, escOut>>
    /\ UNCHANGED convVars

NextText == MakeSafeId \/ MakeSafeIdAgain \/ EscapeXml \/ EscapeXmlAgain

SpecText == InitText /\ [][NextText]_vars

(***************************************************************************)
(* Claims about the text helpers (checked under SpecText)                  *)
(***************************************************************************)
SafeIdValid(s) ==
    /\ s # <<>>
    /\ isalpha(s[1]) \/ s[1] = "_"
    /\ \A i \in 1..Len(s) : IsIdChar(s[i])

\* C6: for every input string, make_xml_safe_id returns a non-empty string
\* whose first character is a letter or '_' and whose characters are all in
\* [A-Za-z0-9_.-], and applying it to its own result returns that result.
C6_SafeIdValidIdempotent ==
    /\ idOut # Unset => SafeIdValid(idOut)
    /\ idOut2 # Unset => idOut2 = idOut

\* C6 witness: an input that starts with a digit and holds a character
\* outside the class has been sanitised twice.
C6_Witness ==
    /\ idOut2 # Unset
    /\ text # <<>>
    /\ isdigit(text[1])
    /\ \E i \in 1..Len(text) : ~IsIdChar(text[i])
    /\ idOut # text

Entities ==
    { <<"&", "a", "m", "p", ";">>, <<"&", "l", "t", ";">>, <<"&", "g", "t", ";">>,
      <<"&", "q", "u", "o", "t", ";">>, <<"&", "a", "p", "o", "s", ";">> }

EntityAt(s, i) == \E e \in Entities : i + Len(e) - 1 <= Len(s) /\ SubSeq(s, i, i + Len(e) - 1) = e

NoRawMarkup(s) ==
    \A i \in 1..Len(s) :
        /\ s[i] \notin {"<", ">", "\""}
        /\ s[i] \notin ControlChars \cup {"\t", "\n", "\r"}
        /\ s[i] = "&" => EntityAt(s, i)

RECURSIVE AmpDoubled(_)
AmpDoubled(s) ==
    IF s = <<>> THEN <<>>
    ELSE (IF Head(s) = "&" THEN <<"&", "a", "m", "p", ";">> ELSE <<Head(s)>>) \o AmpDoubled(Tail(s))

HasAmp(s) == \E i \in 1..Len(s) : s[i] = "&"

\* C7: the result of escape_xml_thoroughly holds no literal '<', '>', '"', no
\* control character and no '&' that does not start one of the five entities;
\* escaping the result again turns each '&' into '&amp;' and changes nothing
\* else, so the result changes exactly when it holds an '&'.
C7_EscapeCleanAndReescape ==
    /\ escOut # Unset => NoRawMarkup(escOut)
    /\ escOut2 # Unset => /\ escOut2 = AmpDoubled(escOut)
                          /\ (escOut2 # escOut) <=> HasAmp(escOut)

\* C7 witness: a text with a markup character and a control character was
\* escaped twice and the second pass changed it.
C7_Witness ==
    /\ escOut2 # Unset
    /\ \E i \in 1..Len(text) : text[i] \in {"<", ">", "\"", "'", "&"}
    /\ \E i \in 1..Len(text) : text[i] \in ControlChars \cup {"\t", "\n", "\r"}
    /\ escOut2 # escOut

(***************************************************************************)
(* JSON values, and str() of a value as Python prints it                   *)
(***************************************************************************)
JAbsent == [k |-> "absent", s |-> <<>>, n |-> 0, d |-> 0]
JNull == [k |-> "null", s |-> <<>>, n |-> 0, d |-> 0]
JStr(chars) == [k |-> "str", s |-> chars, n |-> 0, d |-> 0]
JInt(i) == [k |-> "int", s |-> <<>>, n |-> i, d |-> 0]
\* the float m / 10^d, with m not a multiple of 10 unless d = 0
JFloat(m, dec) == [k |-> "float", s |-> <<>>, n |-> m, d |-> dec]
JBool(b) == [k |-> "bool", s |-> <<>>, n |-> IF b THEN 1 ELSE 0, d |-> 0]

DigitChar(i) == <<"0", "1", "2", "3", "4", "5", "6", "7", "8", "9">>[i + 1]

RECURSIVE digitsOf(_)
digitsOf(i) == IF i < 10 THEN <<DigitChar(i)>> ELSE digitsOf(i \div 10) \o <<DigitChar(i % 10)>>

zeros(c) == [i \in 1..c |-> "0"]

\* repr of the float m / 10^dec: positional when -4 < decpt <= 16, else exponent form
float_repr(m, dec) ==
    LET ds == digitsOf(m)
        nd == Len(ds)
        decpt == nd - dec
        expo == 1 - decpt
    IN  IF m = 0 THEN <<"0", ".", "0">>
        ELSE IF decpt > -4
             THEN IF decpt <= 0 THEN <<"0", ".">> \o zeros(0 - decpt) \o ds
                  ELSE IF decpt < nd THEN SubSeq(ds, 1, decpt) \o <<".">> \o SubSeq(ds, decpt + 1, nd)
                  ELSE ds \o zeros(decpt - nd) \o <<".", "0">>
             ELSE <<ds[1]>> \o (IF nd > 1 THEN <<".">> \o SubSeq(ds, 2, nd) ELSE <<>>)
                  \o <<"e", "-">> \o (IF expo < 10 THEN <<"0">> ELSE <<>>) \o digitsOf(expo)

\* str(v)
pystr(v) ==
    CASE v.k = "str" -> v.s
      [] v.k = "int" -> IF v.n < 0 THEN <<"-">> \o digitsOf(0 - v.n) ELSE digitsOf(v.n)
      [] v.k = "float" -> float_repr(v.n, v.d)
      [] v.k = "bool" -> IF v.n = 1 THEN <<"T", "r", "u", "e">> ELSE <<"F", "a", "l", "s", "e">>
      [] OTHER -> <<"N", "o", "n", "e">>

\* dict.get(key) on a record field: an absent key reads as None
IsNone(v) == v.k \in {"absent", "null"}

\* bool(v)
truthy(v) ==
    CASE v.k = "str" -> v.s # <<>>
      [] v.k \in {"int", "float", "bool"} -> v.n # 0
      [] OTHER -> FALSE

(***************************************************************************)
(* The mapping tables of __init__                                          *)
(***************************************************************************)
ResourceS == <<"R", "e", "s", "o", "u", "r", "c", "e">>
ActionS == <<"A", "c", "t", "i", "o", "n">>
DecisionS == <<"D", "e", "c", "i", "s", "i", "o", "n">>
StateS == <<"S", "t", "a", "t", "e">>
subTypeS == <<"s", "u", "b", "T", "y", "p", "e">>

type_mapping ==
    (ResourceS :> "startEvent") @@
    (ActionS :> "task") @@
    (DecisionS :> "exclusiveGateway") @@
    (StateS :> "endEvent")

subtype_mapping ==
    (<<"F", "o", "r", "m", " ", "I", "n", "c", "o", "m", "i", "n", "g">> :> "receiveTask") @@
    (<<"M", "a", "i", "l", " ", "O", "u", "t", "g", "o", "i", "n", "g">> :> "sendTask") @@
    (<<"S", "M", "S", " ", "O", "u", "t", "g", "o", "i", "n", "g">> :> "sendTask") @@
    (<<"C", "a", "l", "l", " ", "O", "u", "t", "g", "o", "i", "n", "g">> :> "serviceTask") @@
    (<<"C", "a", "l", "l", " ", "I", "n", "c", "o", "m", "i", "n", "g">> :> "receiveTask") @@
    (<<"M", "e", "s", "s", "a", "g", "e", " ", "O", "u", "t", "g", "o", "i", "n", "g">> :> "sendTask") @@
    (<<"M", "e", "s", "s", "a", "g", "e", " ", "I", "n", "c", "o", "m", "i", "n", "g">> :> "receiveTask") @@
    (<<"M", "a", "n", "u", "a", "l", " ", "F", "o", "r", "m", " ", "F", "i", "l", "l", "o", "u", "t">> :> "userTask") @@
    (<<"M", "a", "n", "u", "a", "l", " ", "A", "c", "c", "o", "u", "n", "t", " ", "G", "e", "n", "e", "r", "a", "t", "i", "o", "n">> :> "userTask") @@
    (<<"M", "a", "n", "u", "a", "l", " ", "F", "o", "r", "m", " ", "U", "p", "d", "a", "t", "e">> :> "userTask") @@
    (<<"V", "i", "d", "e", "o", "c", "a", "l", "l">> :> "userTask") @@
    (<<"V", "i", "d", "e", "o", " ", "I", "n", "c", "o", "m", "i", "n", "g">> :> "receiveTask") @@
    (<<"F", "u", "n", "d", "r", "a", "i", "s", "i", "n", "g">> :> "userTask")

\* dict.get(key, default) over the fields of a record other than id, name, type
GetField(fields, key, default) ==
    IF \E i \in 1..Len(fields) : fields[i][1] = key
    THEN fields[CHOOSE i \in 1..Len(fields) : fields[i][1] = key][2]
    ELSE default

\* a plausible slip: the type table is consulted before the subtype table
bpmn_type_type_first(element) ==
    LET element_type == IF element.type.k = "absent" THEN JStr(ActionS) ELSE element.type
        subtype == GetField(element.fields, subTypeS, JStr(<<>>))
    IN  IF element_type.k = "str" /\ element_type.s \in DOMAIN type_mapping
        THEN type_mapping[element_type.s]
        ELSE IF subtype.k = "str" /\ subtype.s \in DOMAIN subtype_mapping
             THEN subtype_mapping[subtype.s]
             ELSE "task"

\* convert, lines 300-306: the tag of an element
bpmn_type(element) ==
    LET element_type == IF element.type.k = "absent" THEN JStr(ActionS) ELSE element.type
        subtype == GetField(element.fields, subTypeS, JStr(<<>>))
    IN  IF subtype.k = "str" /\ subtype.s \in DOMAIN subtype_mapping
        THEN subtype_mapping[subtype.s]
        ELSE IF element_type.k = "str" /\ element_type.s \in DOMAIN type_mapping
             THEN type_mapping[element_type.s]
             ELSE "task"

(***************************************************************************)
(* convert: the process body                                               *)
(***************************************************************************)
\* lines 314-316: the fields kept as extension properties
custom_props(element) ==
    SelectSeq(element.fields, LAMBDA f : ~IsNone(f[2]) /\ strip(pystr(f[2])) # <<>>)

\* lines 323-327: one property line per kept field whose escaped value is not empty
property_lines(element) ==
    LET kept == custom_props(element)
        all == [i \in 1..Len(kept) |->
                  [name |-> make_xml_safe_id(kept[i][1]),
                   value |-> escape_xml_thoroughly(pystr(kept[i][2]))]]
    IN  SelectSeq(all, LAMBDA l : l.value # <<>>)

\* make_xml_safe_id applied to a JSON value: a falsy value gives 'element_1',
\* any other goes through str()
safe_id(v) == IF truthy(v) THEN make_xml_safe_id(pystr(v)) ELSE element_1

\* lines 299-337: the node written for one element
element_node(element) ==
    [tag |-> bpmn_type(element),
     id |-> safe_id(element.id),
     name |-> IF truthy(element.name) THEN escape_xml_thoroughly(pystr(element.name)) ELSE <<>>,
     ext |-> custom_props(element) # <<>>,
     props |-> property_lines(element)]

NoneS == <<"N", "o", "n", "e">>

\* a plausible slip: the stripped string form is not compared with "1"
has_condition_no_one(prob) ==
    ~IsNone(prob) /\ strip(pystr(prob)) \notin {<<>>, NoneS}

\* line 352: whether a conditionExpression is written
has_condition(prob) ==
    ~IsNone(prob) /\ strip(pystr(prob)) \notin {<<>>, NoneS, <<"1">>}

condPrefix == <<"$", "{", "M", "a", "t", "h", ".", "r", "a", "n", "d", "o", "m", "(", ")", " ", "&", "l", "t", ";", "=", " ">>

\* lines 354-356: the text between <conditionExpression> and its closing tag
condition_text(prob) ==
    <<"\n">> \o [i \in 1..8 |-> " "] \o condPrefix \o pystr(prob) \o <<"}", "\n">> \o [i \in 1..6 |-> " "]

arrow == <<"-", ">">>
to_ == <<"_", "t", "o", "_">>

\* lines 343-362: the sequenceFlow written for one connection
flow_node(connection) ==
    [id |-> make_xml_safe_id(replace(connection.id.s, arrow, to_)),
     sourceRef |-> safe_id(connection.fromId),
     targetRef |-> safe_id(connection.toId),
     cond |-> has_condition(connection.probability),
     text |-> IF has_condition(connection.probability)
              THEN condition_text(connection.probability) ELSE <<>>]

(***************************************************************************)
(* _layout_map and _build_di                                               *)
(***************************************************************************)
NodeOk(n) == n.id # <<>> /\ n.form \in {"direct", "position", "bounds"}
FlatOk(n) == n.form \in {"direct", "position"}

\* the entry a dict keeps for key after the entries were stored in order: the last one
LastWith(entries, key) ==
    entries[CHOOSE i \in 1..Len(entries) :
                entries[i].id = key /\ \A j \in (i + 1)..Len(entries) : entries[j].id # key]

\* lines 60-101: id -> <<x, y>>, from the list form, else from the flat form
layout_map(lay) ==
    LET listed == SelectSeq(lay.nodes, NodeOk)
        flat == SelectSeq(lay.flat, FlatOk)
        used == IF listed # <<>> THEN listed ELSE flat
    IN  [key \in {used[i].id : i \in 1..Len(used)} |-> <<LastWith(used, key).x, LastWith(used, key).y>>]

size_map ==
    ("startEvent" :> <<36, 36>>) @@ ("endEvent" :> <<36, 36>>) @@
    ("exclusiveGateway" :> <<50, 50>>) @@ ("task" :> <<100, 80>>) @@
    ("userTask" :> <<100, 80>>) @@ ("serviceTask" :> <<100, 80>>) @@
    ("sendTask" :> <<100, 80>>) @@ ("receiveTask" :> <<100, 80>>)

h_gap == 200
v_gap == 150
x0 == 100
y0 == 100

\* math.ceil(math.sqrt(m)) for m >= 1
ceil_sqrt(m) == CHOOSE c \in 1..m : c * c >= m /\ (c - 1) * (c - 1) < m

\* a plausible slip: the square root rounded down
grid_cols_floor(n) ==
    LET m == IF n > 1 THEN n ELSE 1
        r == CHOOSE c \in 1..m : c * c <= m /\ (c + 1) * (c + 1) > m
    IN  IF r > 1 THEN r ELSE 1

\* line 120: cols = max(1, ceil(sqrt(max(1, n))))
grid_cols(n) ==
    LET r == ceil_sqrt(IF n > 1 THEN n ELSE 1)
    IN  IF r > 1 THEN r ELSE 1

\* lines 131-138: the position of the element at 0-based index idx
element_position(infos, lm, idx) ==
    LET eid == infos[idx + 1].id
        cols == grid_cols(Len(infos))
    IN  IF eid \in DOMAIN lm THEN lm[eid]
        ELSE <<x0 + (idx % cols) * h_gap, y0 + (idx \div cols) * v_gap>>

\* lines 125-140: the bounds dict, as its keys in insertion order and its values
bounds_keys(infos) ==
    LET firsts == SelectSeq([i \in 1..Len(infos) |-> i],
                            LAMBDA i : \A j \in 1..(i - 1) : infos[j].id # infos[i].id)
    IN  [i \in 1..Len(firsts) |-> infos[firsts[i]].id]

bounds_of(infos, lm, eid) ==
    LET last == CHOOSE i \in 1..Len(infos) :
                    infos[i].id = eid /\ \A j \in (i + 1)..Len(infos) : infos[j].id # eid
        wh == IF infos[last].bpmn_type \in DOMAIN size_map THEN size_map[infos[last].bpmn_type] ELSE <<100, 80>>
        xy == element_position(infos, lm, last - 1)
    IN  [x |-> xy[1], y |-> xy[2], w |-> wh[1], h |-> wh[2]]

\* a plausible slip: one BPMNShape per element, repeated ids included
di_shapes_per_element(infos, lm) ==
    [i \in 1..Len(infos) |-> [bpmnElement |-> infos[i].id, bounds |-> bounds_of(infos, lm, infos[i].id)]]

\* lines 147-150: one BPMNShape per key of the bounds dict
di_shapes(infos, lm) ==
    LET keys == bounds_keys(infos)
    IN  [i \in 1..Len(keys) |-> [bpmnElement |-> keys[i], bounds |-> bounds_of(infos, lm, keys[i])]]

\* a plausible slip: an edge is written when either endpoint has bounds
di_edges_either(infos, conns, lm) ==
    LET keys == {infos[i].id : i \in 1..Len(infos)}
        drawn == SelectSeq(conns, LAMBDA c : c.source \in keys \/ c.target \in keys)
    IN  [i \in 1..Len(drawn) |->
            LET s == bounds_of(infos, lm, IF drawn[i].source \in keys THEN drawn[i].source ELSE drawn[i].target)
                t == bounds_of(infos, lm, IF drawn[i].target \in keys THEN drawn[i].target ELSE drawn[i].source)
            IN  [bpmnElement |-> drawn[i].id,
                 waypoints |-> << <<s.x + s.w \div 2, s.y + s.h \div 2>>, <<t.x + t.w \div 2, t.y + t.h \div 2>> >>]]

\* lines 153-167: one BPMNEdge per connection whose two endpoints have bounds
di_edges(infos, conns, lm) ==
    LET keys == {infos[i].id : i \in 1..Len(infos)}
        drawn == SelectSeq(conns, LAMBDA c : c.source \in keys /\ c.target \in keys)
    IN  [i \in 1..Len(drawn) |->
            LET s == bounds_of(infos, lm, drawn[i].source)
                t == bounds_of(infos, lm, drawn[i].target)
            IN  [bpmnElement |-> drawn[i].id,
                 waypoints |-> << <<s.x + s.w \div 2, s.y + s.h \div 2>>, <<t.x + t.w \div 2, t.y + t.h \div 2>> >>]]

\* lines 337, 362: what convert hands to _build_di
element_infos(nodes) == [i \in 1..Len(nodes) |-> [id |-> nodes[i].id, bpmn_type |-> nodes[i].tag]]
connection_infos(flows) == [i \in 1..Len(flows) |-> [id |-> flows[i].id, source |-> flows[i].sourceRef, target |-> flows[i].targetRef]]

\* a plausible slip: the name is read with element["name"]
element_error_name_required(element) ==
    IF element.id.k = "absent" \/ element.name.k = "absent" THEN "KeyError" ELSE "none"

\* line 308: element["id"] raises KeyError when the record has no id
element_error(element) == IF element.id.k = "absent" THEN "KeyError" ELSE "none"

\* lines 344-346: connection["id"].replace, connection["fromId"], connection["toId"]
connection_error(connection) ==
    IF connection.id.k = "absent" THEN "KeyError"
    ELSE IF connection.id.k # "str" THEN "AttributeError"
    ELSE IF connection.fromId.k = "absent" \/ connection.toId.k = "absent" THEN "KeyError"
    ELSE "none"

\* the first error of a loop over records
first_error(errs) ==
    LET bad == {i \in 1..Len(errs) : errs[i] # "none"}
    IN  IF bad = {} THEN "none" ELSE errs[CHOOSE i \in bad : \A z \in bad : i <= z]

\* lines 258-261: open and json.load of a required file
load_error(state) ==
    CASE state = "absent" -> "FileNotFoundError"
      [] state = "unparsable" -> "JSONDecodeError"
      [] OTHER -> "none"

\* lines 258-261, 299-362: the exception convert raises, "none" when it completes
convert_error(fs, els, conns) ==
    first_error(<<load_error(fs.elements),
                  load_error(fs.connections),
                  first_error([i \in 1..Len(els) |-> element_error(els[i])]),
                  first_error([i \in 1..Len(conns) |-> connection_error(conns[i])])>>)

\* lines 269-273, 62-64, 116: the layout _build_di works with: empty when the
\* file is absent, is not JSON or does not hold an object
loaded_layout(fs, lay) == IF fs.layout = "ok" THEN lay ELSE [nodes |-> <<>>, flat |-> <<>>]

\* lines 281-371: the document convert assembles
bpmn_document(els, conns, lay) ==
    LET nodes == [i \in 1..Len(els) |-> element_node(els[i])]
        flows == [i \in 1..Len(conns) |-> flow_node(conns[i])]
        infos == element_infos(nodes)
        lm == layout_map(lay)
    IN  [nodes |-> nodes,
         flows |-> flows,
         shapes |-> di_shapes(infos, lm),
         edges |-> di_edges(infos, connection_infos(flows), lm)]

(***************************************************************************)
(* convert_bpmn_to_json                                                    *)
(***************************************************************************)
\* what ET.parse accepts as an attribute value (written between double quotes)
WellFormedAttr(s) ==
    \A i \in 1..Len(s) :
        /\ s[i] \notin {"<", "\"", "x01"}
        /\ s[i] = "&" => EntityAt(s, i)

\* what ET.parse accepts as character data
WellFormedText(s) ==
    \A i \in 1..Len(s) :
        /\ s[i] \notin {"<", "x01"}
        /\ s[i] = "&" => EntityAt(s, i)

\* line 409: ET.parse succeeds on the document
WellFormed(doc) ==
    /\ \A i \in 1..Len(doc.nodes) :
          /\ WellFormedAttr(doc.nodes[i].id)
          /\ WellFormedAttr(doc.nodes[i].name)
          /\ \A j \in 1..Len(doc.nodes[i].props) :
                /\ WellFormedAttr(doc.nodes[i].props[j].name)
                /\ WellFormedAttr(doc.nodes[i].props[j].value)
    /\ \A i \in 1..Len(doc.flows) :
          /\ WellFormedAttr(doc.flows[i].id)
          /\ WellFormedAttr(doc.flows[i].sourceRef)
          /\ WellFormedAttr(doc.flows[i].targetRef)
          /\ WellFormedText(doc.flows[i].text)

EntityChar(e) ==
    CASE e = <<"&", "a", "m", "p", ";">> -> "&"
      [] e = <<"&", "l", "t", ";">> -> "<"
      [] e = <<"&", "g", "t", ";">> -> ">"
      [] e = <<"&", "q", "u", "o", "t", ";">> -> "\""
      [] OTHER -> "'"

\* the parser's replacement of entity references in a well-formed string
RECURSIVE xml_decode(_)
xml_decode(s) ==
    IF s = <<>> THEN <<>>
    ELSE IF Head(s) = "&" /\ EntityAt(s, 1)
         THEN LET e == CHOOSE x \in Entities : Len(x) <= Len(s) /\ SubSeq(s, 1, Len(x)) = x
              IN  <<EntityChar(e)>> \o xml_decode(SubSeq(s, Len(e) + 1, Len(s)))
         ELSE <<Head(s)>> \o xml_decode(Tail(s))

\* a plausible slip: endEvent read back as Resource
bpmn_to_type_end_resource ==
    ("startEvent" :> ResourceS) @@ ("endEvent" :> ResourceS) @@
    ("exclusiveGateway" :> DecisionS) @@ ("task" :> ActionS) @@
    ("userTask" :> ActionS) @@ ("serviceTask" :> ActionS) @@
    ("sendTask" :> ActionS) @@ ("receiveTask" :> ActionS)

bpmn_to_type ==
    ("startEvent" :> ResourceS) @@ ("endEvent" :> StateS) @@
    ("exclusiveGateway" :> DecisionS) @@ ("task" :> ActionS) @@
    ("userTask" :> ActionS) @@ ("serviceTask" :> ActionS) @@
    ("sendTask" :> ActionS) @@ ("receiveTask" :> ActionS)

element_tags == <<"startEvent", "endEvent", "exclusiveGateway", "task", "userTask", "serviceTask", "sendTask", "receiveTask">>

baseFields == {<<"i", "d">>, <<"n", "a", "m", "e">>, <<"t", "y", "p", "e">>}

RECURSIVE skip_ws(_, _)
skip_ws(txt, j) == IF j <= Len(txt) /\ txt[j] \in Whitespace THEN skip_ws(txt, j + 1) ELSE j

RECURSIVE digit_run(_, _)
digit_run(txt, j) == IF j <= Len(txt) /\ isdigit(txt[j]) THEN 1 + digit_run(txt, j + 1) ELSE 0

\* what [0-9]*\.?[0-9]+ matches at position j (<<>> when it does not match)
number_at(txt, j) ==
    LET a == digit_run(txt, j)
        b == IF j + a <= Len(txt) /\ txt[j + a] = "." THEN digit_run(txt, j + a + 1) ELSE 0
    IN  IF b >= 1 THEN SubSeq(txt, j, j + a + b)
        ELSE IF a >= 1 THEN SubSeq(txt, j, j + a - 1)
        ELSE <<>>

\* line 480: group 1 of re.search(r"<=\s*([0-9]*\.?[0-9]+)", txt), <<>> when no match
probability_match(txt) ==
    LET starts == {i \in 1..(Len(txt) - 1) :
                     txt[i] = "<" /\ txt[i + 1] = "=" /\ number_at(txt, skip_ws(txt, i + 2)) # <<>>}
    IN  IF starts = {} THEN <<>>
        ELSE LET i == CHOOSE x \in starts : \A z \in starts : x <= z
             IN  number_at(txt, skip_ws(txt, i + 2))

DigitValue(c) == CHOOSE i \in 0..9 : DigitChar(i) = c

RECURSIVE nat_of(_)
nat_of(ds) == IF ds = <<>> THEN 0 ELSE 10 * nat_of(SubSeq(ds, 1, Len(ds) - 1)) + DigitValue(ds[Len(ds)])

RECURSIVE normal_float(_, _)
normal_float(m, dec) == IF dec > 0 /\ m % 10 = 0 THEN normal_float(m \div 10, dec - 1) ELSE JFloat(m, dec)

\* line 483: float() of a matched digits[.digits] string
parse_float(ds) ==
    LET dots == {i \in 1..Len(ds) : ds[i] = "."}
    IN  IF dots = {} THEN normal_float(nat_of(ds), 0)
        ELSE LET dot == CHOOSE i \in dots : TRUE
             IN  normal_float(nat_of(SubSeq(ds, 1, dot - 1) \o SubSeq(ds, dot + 1, Len(ds))), Len(ds) - dot)

RECURSIVE Pow10(_)
Pow10(e) == IF e = 0 THEN 1 ELSE 10 * Pow10(e - 1)

(***************************************************************************)
(* _parse_simsam_properties and the element records                        *)
(***************************************************************************)
UpperCase == <<"A", "B", "C", "D", "E", "F", "G", "H", "I", "J", "K", "L", "M", "N", "O", "P", "Q", "R", "S", "T", "U", "V", "W", "X", "Y", "Z">>
LowerCase == <<"a", "b", "c", "d", "e", "f", "g", "h", "i", "j", "k", "l", "m", "n", "o", "p", "q", "r", "s", "t", "u", "v", "w", "x", "y", "z">>

\* str.lower()
lower(s) ==
    [i \in 1..Len(s) |->
        IF \E j \in 1..Len(UpperCase) : UpperCase[j] = s[i]
        THEN LowerCase[CHOOSE j \in 1..Len(UpperCase) : UpperCase[j] = s[i]]
        ELSE s[i]]

\* a run of digits with single underscores between digits, as int() and float() read one
DigitGroup(s) ==
    /\ s # <<>>
    /\ isdigit(s[1])
    /\ isdigit(s[Len(s)])
    /\ \A i \in 1..Len(s) : isdigit(s[i]) \/ (s[i] = "_" /\ isdigit(s[i + 1]))

drop_underscores(s) == SelectSeq(s, LAMBDA c : c # "_")

unsigned(s) == IF s # <<>> /\ s[1] \in {"+", "-"} THEN Tail(s) ELSE s
sign_of(s) == IF s # <<>> /\ s[1] = "-" THEN 0 - 1 ELSE 1

\* int(v) succeeds on the stripped string v
IsIntLiteral(v) == DigitGroup(unsigned(v))
int_of(v) == sign_of(v) * nat_of(drop_underscores(unsigned(v)))

\* the parts of a float literal: mantissa before and after the point, exponent
float_parts(v) ==
    LET u == unsigned(v)
        es == {i \in 1..Len(u) : u[i] \in {"e", "E"}}
        e == IF es = {} THEN Len(u) + 1 ELSE CHOOSE i \in es : \A z \in es : i <= z
        mant == SubSeq(u, 1, e - 1)
        dots == {i \in 1..Len(mant) : mant[i] = "."}
        dot == IF dots = {} THEN Len(mant) + 1 ELSE CHOOSE i \in dots : \A z \in dots : i <= z
    IN  [ip |-> SubSeq(mant, 1, dot - 1),
         fp |-> SubSeq(mant, dot + 1, Len(mant)),
         has_exp |-> es # {},
         ex |-> SubSeq(u, e + 1, Len(u))]

\* float(v) succeeds on the stripped string v (inf and nan have no point and never reach float)
IsFloatLiteral(v) ==
    LET p == float_parts(v)
    IN  /\ p.ip = <<>> \/ DigitGroup(p.ip)
        /\ p.fp = <<>> \/ DigitGroup(p.fp)
        /\ p.ip # <<>> \/ p.fp # <<>>
        /\ p.has_exp => DigitGroup(unsigned(p.ex))

float_of(v) ==
    LET p == float_parts(v)
        ip == drop_underscores(p.ip)
        fp == drop_underscores(p.fp)
        ex == IF p.has_exp THEN sign_of(p.ex) * nat_of(drop_underscores(unsigned(p.ex))) ELSE 0
        m == sign_of(v) * nat_of(ip \o fp)
        dec == Len(fp) - ex
    IN  IF dec >= 0 THEN normal_float(m, dec) ELSE normal_float(m * Pow10(0 - dec), 0)

TrueS == <<"t", "r", "u", "e">>
FalseS == <<"f", "a", "l", "s", "e">>
NullWords == {<<"n", "o", "n", "e">>, <<"n", "u", "l", "l">>}

\* lines 230-245: the value restored from the string of a value attribute
property_value(value) ==
    LET v == strip(value)
    IN  IF lower(v) = TrueS THEN JBool(TRUE)
        ELSE IF lower(v) = FalseS THEN JBool(FALSE)
        ELSE IF lower(v) \in NullWords THEN JNull
        ELSE IF \E i \in 1..Len(v) : v[i] = "."
             THEN IF IsFloatLiteral(v) THEN float_of(v) ELSE JStr(value)
             ELSE IF IsIntLiteral(v) THEN JInt(int_of(v)) ELSE JStr(value)

\* the items of the dict that results from assigning the pairs in order:
\* a key keeps the place of its first assignment and the value of its last
dict_items(pairs) ==
    LET firsts == SelectSeq([i \in 1..Len(pairs) |-> i],
                            LAMBDA i : \A j \in 1..(i - 1) : pairs[j][1] # pairs[i][1])
        last(key) == CHOOSE i \in 1..Len(pairs) :
                        pairs[i][1] = key /\ \A j \in (i + 1)..Len(pairs) : pairs[j][1] # key
    IN  [n \in 1..Len(firsts) |-> <<pairs[firsts[n]][1], pairs[last(pairs[firsts[n]][1])][2]>>]

\* lines 213-248: the props dict of one node
parse_simsam_properties(node) ==
    dict_items([j \in 1..Len(node.props) |->
                  <<xml_decode(node.props[j].name), property_value(xml_decode(node.props[j].value))>>])

\* lines 49-54
element_schema ==
    <<<<"i", "d">>,
      <<"n", "a", "m", "e">>,
      <<"i", "n", "c", "o", "m", "i", "n", "g", "N", "u", "m", "b", "e", "r">>,
      <<"v", "a", "r", "i", "a", "b", "l", "e">>,
      <<"t", "y", "p", "e">>,
      <<"s", "u", "b", "T", "y", "p", "e">>,
      <<"a", "O", "R">>,
      <<"e", "x", "e", "c", "u", "t", "i", "o", "n">>,
      <<"a", "c", "c", "o", "u", "n", "t">>,
      <<"p", "l", "a", "t", "f", "o", "r", "m">>,
      <<"m", "o", "n", "i", "t", "o", "r", "i", "n", "g">>,
      <<"m", "o", "n", "i", "t", "o", "r", "e", "d", "D", "a", "t", "a">>,
      <<"d", "e", "s", "c", "r", "i", "p", "t", "i", "o", "n">>,
      <<"a", "v", "g", "C", "o", "s", "t", "T", "i", "m", "e">>,
      <<"a", "v", "g", "C", "o", "s", "t">>,
      <<"e", "f", "f", "e", "c", "t", "i", "v", "e", "C", "o", "s", "t">>,
      <<"l", "a", "s", "t", "U", "p", "d", "a", "t", "e">>,
      <<"n", "e", "x", "t", "U", "p", "d", "a", "t", "e">>,
      <<"k", "P", "I">>,
      <<"s", "c", "h", "e", "d", "u", "l", "e", "S", "t", "a", "r", "t">>,
      <<"s", "c", "h", "e", "d", "u", "l", "e", "E", "n", "d">>,
      <<"f", "r", "e", "q", "u", "e", "n", "c", "y", "\r">>>>

\* lines 433-456: the record of one node: id, name, type, the extension
\* properties other than these three, then every schema field not yet present as null
element_record(node) ==
    LET props == parse_simsam_properties(node)
        kept == SelectSeq(props, LAMBDA q : q[1] \notin baseFields)
        missing == SelectSeq(element_schema,
                             LAMBDA fld : fld \notin baseFields /\ \A j \in 1..Len(kept) : kept[j][1] # fld)
    IN  [id |-> xml_decode(node.id),
         name |-> xml_decode(node.name),
         type |-> IF node.tag \in DOMAIN bpmn_to_type THEN bpmn_to_type[node.tag] ELSE ActionS,
         fields |-> kept \o [i \in 1..Len(missing) |-> <<missing[i], JNull>>]]

\* lines 429-456: the nodes, tag by tag in the order of element_tags
RECURSIVE records_by_tag(_, _)
records_by_tag(doc, tags) ==
    IF tags = <<>> THEN <<>>
    ELSE LET found == SelectSeq(doc.nodes, LAMBDA nd : nd.tag = Head(tags))
         IN  [i \in 1..Len(found) |-> element_record(found[i])] \o records_by_tag(doc, Tail(tags))

\* lines 460-489: the record of one sequenceFlow
connection_record(flow) ==
    LET txt == strip(xml_decode(flow.text))
        m == probability_match(txt)
        has_text == flow.cond /\ flow.text # <<>>
    IN  [id |-> xml_decode(flow.id),
         fromId |-> xml_decode(flow.sourceRef),
         toId |-> xml_decode(flow.targetRef),
         probability |-> IF has_text /\ m # <<>> THEN parse_float(m) ELSE JNull,
         condition |-> IF has_text /\ m = <<>> THEN JStr(txt) ELSE JNull]

\* lines 492-506: one layout node per BPMNShape
layout_nodes(doc) ==
    [i \in 1..Len(doc.shapes) |->
        [id |-> doc.shapes[i].bpmnElement, x |-> doc.shapes[i].bounds.x, y |-> doc.shapes[i].bounds.y]]

(***************************************************************************)
(* Inputs                                                                  *)
(***************************************************************************)
MaxRtElems == 2
MaxElems == 5
MaxConns == 2
MaxDecimals == 5
MaxFields == 2

SeqsUpTo(pool, n) == UNION {[1..k -> pool] : k \in 0..n}

Element(id, name, type, fields) == [id |-> JStr(id), name |-> name, type |-> type, fields |-> fields]
Connection(id, from, to, prob) == [id |-> JStr(id), fromId |-> JStr(from), toId |-> JStr(to), probability |-> prob]
LayoutNode(id, form, x, y) == [id |-> id, form |-> form, x |-> x, y |-> y]
NoLayout == [nodes |-> <<>>, flat |-> <<>>]

MailOutgoingS == <<"M", "a", "i", "l", " ", "O", "u", "t", "g", "o", "i", "n", "g">>

RtIds == {<<"1", "a">>, <<"a", " ", "b">>, <<" ", "a">>, <<>>, <<"a", ".", "b", "-", "c">>}
RtNames ==
    {JAbsent, JStr(<<" ", "a", " ">>), JStr(<<"a", "\r", "\n", "b">>), JStr(<<"x01", "a">>),
     JStr(<<"<", "a", "&", "\"", "'", ">">>)}
RtTypes == {JAbsent, JStr(ActionS), JStr(DecisionS), JStr(<<"X">>)}
RtFields ==
    {<< <<subTypeS, JStr(MailOutgoingS)>> >>, << <<subTypeS, JStr(<<"z">>)>> >>,
     << <<subTypeS, JNull>>, << <<"k", "<">>, JStr(<<"v", "&", "\"">>)>> >>}

ElemPool ==
    {Element(id, JStr(<<"a">>), JStr(ResourceS), <<>>) : id \in RtIds}
    \cup {Element(<<"a">>, nm, JStr(StateS), <<>>) : nm \in RtNames}
    \cup {Element(<<"a">>, JStr(<<"a">>), ty, <<>>) : ty \in RtTypes}
    \cup {Element(<<"a">>, JStr(<<"a">>), JStr(ResourceS), fl) : fl \in RtFields}
    \cup {Element(<<"a">>, JStr(<<"a">>), JStr(ActionS), << <<subTypeS, JStr(MailOutgoingS)>> >>)}

ProbFloats == {JFloat(m, dec) : m \in {1, 5, 7, 25}, dec \in 0..MaxDecimals}
ProbPool ==
    {JAbsent, JNull, JInt(1), JInt(0), JBool(TRUE)} \cup ProbFloats
    \cup {JStr(<<"1">>), JStr(<<" ", "1", " ">>), JStr(<<"0", ".", "5">>), JStr(<<>>), JStr(NoneS),
          JStr(<<"<", "1">>), JStr(<<"a", "&", "b">>), JStr(<<"x">>)}

E1 == <<"E", "1">>
A1 == <<"A", "1">>
D1 == <<"D", "1">>
S1 == <<"S", "1">>

GridPool ==
    {Element(<<"a">>, JAbsent, JStr(ResourceS), <<>>),
     Element(<<"a", " ", "b">>, JAbsent, JStr(ActionS), <<>>),
     Element(<<"a", "_", "b">>, JAbsent, JStr(DecisionS), <<>>)}

LayoutPool ==
    {NoLayout,
     [nodes |-> <<LayoutNode(<<"a">>, "direct", 10, 20)>>, flat |-> <<>>],
     [nodes |-> <<LayoutNode(<<"a", " ", "b">>, "direct", 30, 40)>>, flat |-> <<>>],
     [nodes |-> <<LayoutNode(<<"a", " ", "b">>, "position", 30, 40), LayoutNode(<<"a", "_", "b">>, "bounds", 50, 60), LayoutNode(<<"a">>, "none", 0, 0)>>, flat |-> <<>>],
     [nodes |-> <<LayoutNode(<<>>, "direct", 1, 1)>>, flat |-> <<LayoutNode(<<"a">>, "position", 70, 80), LayoutNode(<<"a", "_", "b">>, "bounds", 5, 5)>>]}

EdgeEnds == {<<"a">>, <<"a", "_", "b">>, <<"z", "z">>}
EdgePool == {Connection(from \o arrow \o to, from, to, JAbsent) : from \in EdgeEnds, to \in EdgeEnds}

ScenarioElements ==
    <<Element(E1, JAbsent, JStr(ResourceS), <<>>),
      Element(A1, JAbsent, JStr(ActionS), << <<subTypeS, JStr(MailOutgoingS)>> >>),
      Element(D1, JAbsent, JStr(DecisionS), <<>>),
      Element(S1, JAbsent, JStr(StateS), <<>>)>>

ScenarioConnections ==
    <<Connection(E1 \o arrow \o A1, E1, A1, JAbsent),
      Connection(A1 \o arrow \o D1, A1, D1, JFloat(5, 1)),
      Connection(D1 \o arrow \o S1, D1, S1, JAbsent)>>

avgCostS == <<"a", "v", "g", "C", "o", "s", "t">>

\* scalar values of an extra field: strings, integers, floats, booleans, null
PropValues ==
    {JStr(<<"a">>), JStr(<<"a", "<", "b">>), JStr(<<"T", "r", "u", "e">>), JStr(<<"1", "2">>),
     JStr(<<"1", ".", "5">>), JStr(<<"1", "_", "0">>), JStr(<<"n", "u", "l", "l">>), JStr(<<" ", "a">>),
     JStr(<<"a", "\t", "b">>), JStr(<<>>), JStr(<<"1", "e", "5">>), JStr(<<"1", ".", "e">>),
     JInt(0), JInt(12), JInt(0 - 3), JFloat(5, 1), JFloat(1, 0), JFloat(0, 0), JFloat(1, 5), JFloat(15, 6),
     JBool(TRUE), JBool(FALSE), JNull}

FieldPool ==
    {<<<<"k">>, v>> : v \in PropValues}
    \cup {<<avgCostS, v>> : v \in {JNull, JStr(<<>>), JInt(5)}}
    \cup {<<<<"k", "<">>, JStr(<<"v">>)>>, <<<<"k", "_">>, JStr(<<"w">>)>>}

\* the items of a JSON object: no key twice
FieldSeqs ==
    {fl \in UNION {[1..n -> FieldPool] : n \in 1..MaxFields} :
        \A i, j \in 1..Len(fl) : i # j => fl[i][1] # fl[j][1]}

\* round-trip inputs: elements that vary in id, name, type and extra fields
InitElements ==
    /\ elements \in SeqsUpTo(ElemPool, MaxRtElems)
    /\ connections = <<>>
    /\ layout = NoLayout

\* probability inputs: one connection between two elements
InitProbability ==
    /\ elements = <<ScenarioElements[1], ScenarioElements[2]>>
    /\ \E prob \in ProbPool : connections = <<Connection(E1 \o arrow \o A1, E1, A1, prob)>>
    /\ layout = NoLayout

\* layout inputs: up to MaxElems elements, with and without layout entries
InitGrid ==
    /\ elements \in SeqsUpTo(GridPool, MaxElems)
    /\ connections = <<>>
    /\ layout \in LayoutPool

\* edge inputs: connections whose ends do or do not name an element
InitEdges ==
    /\ elements \in SeqsUpTo(GridPool, 1) \cup {<<Element(<<"a">>, JAbsent, JStr(ResourceS), <<>>), Element(<<"a", " ", "b">>, JAbsent, JStr(ActionS), <<>>)>>}
    /\ connections \in SeqsUpTo(EdgePool, MaxConns)
    /\ layout = NoLayout

\* extension-property inputs: one element with up to MaxFields extra fields
InitProperties ==
    /\ \E fl \in FieldSeqs : elements = <<Element(<<"a">>, JStr(<<"a">>), JStr(ActionS), fl)>>
    /\ connections = <<>>
    /\ layout = NoLayout

\* records with and without their fields
BareElements ==
    {[id |-> JStr(<<"a">>), name |-> JAbsent, type |-> JAbsent, fields |-> <<>>],
     [id |-> JStr(<<"b">>), name |-> JStr(<<"b">>), type |-> JStr(StateS), fields |-> <<>>],
     [id |-> JInt(5), name |-> JAbsent, type |-> JStr(DecisionS), fields |-> <<>>],
     [id |-> JAbsent, name |-> JStr(<<"a">>), type |-> JStr(ActionS), fields |-> <<>>]}

BareConnections ==
    {[id |-> JStr(<<"a", "-", ">", "b">>), fromId |-> JStr(<<"a">>), toId |-> JStr(<<"b">>), probability |-> JAbsent],
     [id |-> JAbsent, fromId |-> JStr(<<"a">>), toId |-> JStr(<<"b">>), probability |-> JFloat(5, 1)],
     [id |-> JInt(7), fromId |-> JStr(<<"a">>), toId |-> JStr(<<"b">>), probability |-> JAbsent],
     [id |-> JStr(<<"a", "-", ">", "b">>), fromId |-> JAbsent, toId |-> JStr(<<"b">>), probability |-> JAbsent],
     [id |-> JStr(<<"a", "-", ">", "b">>), fromId |-> JStr(<<"a">>), toId |-> JAbsent, probability |-> JAbsent]}

FilesPool ==
    {Files(e, "ok", "ok", "ok") : e \in {"absent", "unparsable"}}
    \cup {Files("ok", c, "ok", "ok") : c \in {"absent", "unparsable"}}
    \cup {Files("ok", "ok", v, l) : v \in {"ok", "absent", "unparsable"}, l \in {"ok", "absent", "unparsable", "not_object"}}

\* file inputs: every state of the four files, around one element and one connection
InitFiles ==
    /\ files \in FilesPool
    /\ elements \in IF files.elements = "ok"
                     THEN SeqsUpTo({[id |-> JStr(<<"a">>), name |-> JAbsent, type |-> JAbsent, fields |-> <<>>]}, 1)
                     ELSE {<<>>}
    /\ connections \in IF files.connections = "ok"
                        THEN SeqsUpTo({[id |-> JStr(<<"a", "-", ">", "a">>), fromId |-> JStr(<<"a">>), toId |-> JStr(<<"a">>), probability |-> JAbsent]}, 1)
                        ELSE {<<>>}
    /\ layout = NoLayout

\* record inputs: elements and connections with fields missing, the layout file present or not
InitRecords ==
    /\ files \in {AllOk, Files("ok", "ok", "absent", "absent")}
    /\ elements \in SeqsUpTo(BareElements, MaxRtElems)
    /\ connections \in SeqsUpTo(BareConnections, MaxConns)
    /\ layout = NoLayout

InitScenario ==
    /\ elements = ScenarioElements
    /\ connections = ScenarioConnections
    /\ layout = NoLayout

Init ==
    /\ text = <<>>
    /\ idOut = Unset
    /\ idOut2 = Unset
    /\ escOut = Unset
    /\ escOut2 = Unset
    /\ pc = "start"
    /\ error = "none"
    /\ output = "none"
    /\ bpmn = Unset
    /\ positions = <<>>
    /\ out_elements = Unset
    /\ out_connections = Unset
    /\ out_layout = Unset
    /\ \/ files = AllOk /\ (InitElements \/ InitProbability \/ InitGrid \/ InitEdges \/ InitProperties \/ InitScenario)
       \/ InitFiles
       \/ InitRecords

(***************************************************************************)
(* Operations                                                              *)
(***************************************************************************)
\* convert: JSON -> BPMN. A failed load raises before anything is left at the
\* output path; a bad record raises after the output folder was made (lines
\* 276-278); the file is written last (lines 374-375)
Convert ==
    /\ pc = "start"
    /\ LET err == convert_error(files, elements, connections)
           lay == loaded_layout(files, layout)
           doc == bpmn_document(elements, connections, lay)
           infos == element_infos(doc.nodes)
       IN  IF err # "none"
           THEN /\ pc' = "raised"
                /\ error' = err
                /\ output' = IF load_error(files.elements) = "none" /\ load_error(files.connections) = "none"
                             THEN "folder" ELSE "none"
                /\ UNCHANGED <<bpmn, positions>>
           ELSE /\ pc' = "converted"
                /\ bpmn' = doc
                /\ positions' = [i \in 1..Len(infos) |-> element_position(infos, layout_map(lay), i - 1)]
                /\ output' = "file"
                /\ UNCHANGED error
    /\ UNCHANGED <<files, elements, connections, layout, out_elements, out_connections, out_layout>>
    /\ UNCHANGED textVars

\* convert_bpmn_to_json: BPMN -> JSON, on the document convert wrote
ConvertBpmnToJson ==
    /\ pc = "converted"
    /\ IF WellFormed(bpmn)
       THEN /\ out_elements' = records_by_tag(bpmn, element_tags)
            /\ out_connections' = [i \in 1..Len(bpmn.flows) |-> connection_record(bpmn.flows[i])]
            /\ out_layout' = layout_nodes(bpmn)
            /\ pc' = "reversed"
       ELSE /\ pc' = "parse_error"
            /\ UNCHANGED <<out_elements, out_connections, out_layout>>
    /\ UNCHANGED <<files, elements, connections, layout, error, output, bpmn, positions>>
    /\ UNCHANGED textVars

Next == Convert \/ ConvertBpmnToJson

Spec == Init /\ [][Next]_vars

(***************************************************************************)
(* Claims about convert and convert_bpmn_to_json (checked under Spec)      *)
(***************************************************************************)
Converted == pc \in {"converted", "reversed", "parse_error"}
Reversed == pc = "reversed"

KnownSubType(e) ==
    LET st == GetField(e.fields, subTypeS, JAbsent)
    IN  st.k = "str" /\ st.s \in DOMAIN subtype_mapping

\* an element of the round-trip claim: one of the four types, no known
\* subType, and a name that is a string
Unambiguous(e) ==
    /\ e.type.k = "str"
    /\ e.type.s \in {ResourceS, ActionS, DecisionS, StateS}
    /\ ~KnownSubType(e)
    /\ e.name.k = "str"

\* the name as it comes back: CRLF, LF, CR and TAB turned into a space,
\* control characters dropped, outer whitespace stripped
NameNorm(s) ==
    strip(removeControl(applyReplacements(s,
        << <<<<"\r", "\n">>, <<" ">>>>, <<<<"\n">>, <<" ">>>>, <<<<"\r">>, <<" ">>>>, <<<<"\t">>, <<" ">>>> >>)))

\* C1 as stated: after convert and convert_bpmn_to_json every unambiguous
\* element A has its record B with B.id = A.id, B.name = A.name and
\* B.type = A.type, one record per element.
C1_RoundTripExact ==
    Reversed =>
        /\ Len(out_elements) = Len(elements)
        /\ \A i \in 1..Len(elements) :
              Unambiguous(elements[i]) =>
                  \E j \in 1..Len(out_elements) :
                      /\ out_elements[j].id = elements[i].id.s
                      /\ out_elements[j].name = elements[i].name.s
                      /\ out_elements[j].type = elements[i].type.s

\* C1 amended: every unambiguous element A has its record B with
\* B.id = make_xml_safe_id(A.id), B.name = A.name normalised (whitespace
\* characters turned into spaces, control characters dropped, stripped) and
\* B.type = A.type; so B.id = A.id when A.id is already a safe id, and
\* B.name = A.name when normalising leaves the name alone.
C1_RoundTripSanitised ==
    Reversed =>
        /\ Len(out_elements) = Len(elements)
        /\ \A i \in 1..Len(elements) :
              Unambiguous(elements[i]) =>
                  \E j \in 1..Len(out_elements) :
                      /\ out_elements[j].id = make_xml_safe_id(elements[i].id.s)
                      /\ SafeIdValid(elements[i].id.s) => out_elements[j].id = elements[i].id.s
                      /\ out_elements[j].name = NameNorm(elements[i].name.s)
                      /\ out_elements[j].type = elements[i].type.s

\* C1 witness: a round trip of two unambiguous elements, one whose id is
\* rewritten and one whose name is normalised.
C1_Witness ==
    /\ Reversed
    /\ \E i \in 1..Len(elements) :
          /\ Unambiguous(elements[i])
          /\ make_xml_safe_id(elements[i].id.s) # elements[i].id.s
    /\ \E i \in 1..Len(elements) :
          /\ Unambiguous(elements[i])
          /\ elements[i].type.s = StateS
          /\ NameNorm(elements[i].name.s) # elements[i].name.s

\* every input-derived string of the document, as it stands in the XML
DocumentStrings(doc) ==
    {doc.nodes[i].id : i \in 1..Len(doc.nodes)}
    \cup {doc.nodes[i].name : i \in 1..Len(doc.nodes)}
    \cup UNION {UNION {{doc.nodes[i].props[j].name, doc.nodes[i].props[j].value} : j \in 1..Len(doc.nodes[i].props)} : i \in 1..Len(doc.nodes)}
    \cup UNION {{doc.flows[i].id, doc.flows[i].sourceRef, doc.flows[i].targetRef, doc.flows[i].text} : i \in 1..Len(doc.flows)}

NoRawSpecial(s) ==
    \A i \in 1..Len(s) :
        /\ s[i] \notin {"<", "\""}
        /\ s[i] = "&" => EntityAt(s, i)

\* C2 as stated: every input-derived string convert places in an attribute
\* or in element text (ids, names, property names and values, flow refs and
\* the condition text embedding the probability) holds no raw '<', '&' or '"'.
C2_WellFormedOutput ==
    Converted => \A s \in DocumentStrings(bpmn) : NoRawSpecial(s)

\* the tag the claim gives an element
ExpectedTag(e) ==
    LET st == GetField(e.fields, subTypeS, JAbsent)
    IN  IF st.k = "str" /\ st.s \in DOMAIN subtype_mapping THEN subtype_mapping[st.s]
        ELSE IF e.type.k = "str" /\ e.type.s \in DOMAIN type_mapping THEN type_mapping[e.type.s]
        ELSE "task"

\* C3: the tag of every element is subtype_mapping[subType] when subType is
\* a key of the subtype table, else type_mapping[type] when type is a key of
\* the type table, else "task"; the scenario's four elements get startEvent,
\* sendTask, exclusiveGateway, endEvent.
C3_TagSelection ==
    Converted =>
        /\ Len(bpmn.nodes) = Len(elements)
        /\ \A i \in 1..Len(elements) : bpmn.nodes[i].tag = ExpectedTag(elements[i])
        /\ elements = ScenarioElements =>
              [i \in 1..4 |-> bpmn.nodes[i].tag] = <<"startEvent", "sendTask", "exclusiveGateway", "endEvent">>

\* C3 witness: a Resource element with a known subType got the subtype's
\* tag, and an element of an unknown type got "task".
C3_Witness ==
    /\ Converted
    /\ \E i \in 1..Len(elements) :
          /\ elements[i].type = JStr(ResourceS)
          /\ KnownSubType(elements[i])
          /\ bpmn.nodes[i].tag = "sendTask"
    /\ \E i \in 1..Len(elements) :
          /\ elements[i].type = JStr(<<"X">>)
          /\ bpmn.nodes[i].tag = "task"


\* a float probability strictly between 0 and 1
FractionProbability(v) == v.k = "float" /\ v.n > 0 /\ v.n < Pow10(v.d)

Contains(s, sub) == \E i \in 1..(Len(s) - Len(sub) + 1) : SubSeq(s, i, i + Len(sub) - 1) = sub

\* C4 as stated: a connection with probability p, 0 < p < 1, gets a
\* conditionExpression whose text embeds p, and comes back with
\* probability = p and condition = null.
C4_ProbabilityRoundTrip ==
    \A i \in 1..Len(connections) :
        FractionProbability(connections[i].probability) =>
            /\ Converted =>
                  /\ bpmn.flows[i].cond
                  /\ Contains(bpmn.flows[i].text, pystr(connections[i].probability))
            /\ Reversed =>
                  /\ out_connections[i].probability = connections[i].probability
                  /\ out_connections[i].condition = JNull

\* C5 as stated: a connection whose probability is 1 in any JSON form (the
\* integer 1 or the number 1.0) or absent gets no conditionExpression and
\* comes back with probability = null.
C5_ProbabilityOneAnyForm ==
    \A i \in 1..Len(connections) :
        connections[i].probability \in {JAbsent, JInt(1), JFloat(1, 0)} =>
            /\ Converted => ~bpmn.flows[i].cond
            /\ Reversed => out_connections[i].probability = JNull

\* C5 amended: a connection whose probability is absent, the integer 1, or
\* a string that strips to "1" gets no conditionExpression and comes back
\* with probability = null (the number 1.0 prints as "1.0" and is written
\* as a condition).
C5_ProbabilityOneAsInteger ==
    \A i \in 1..Len(connections) :
        \/ connections[i].probability \in {JAbsent, JInt(1)}
        \/ connections[i].probability.k = "str" /\ strip(connections[i].probability.s) = <<"1">>
        =>  /\ Converted => ~bpmn.flows[i].cond /\ bpmn.flows[i].text = <<>>
            /\ Reversed => out_connections[i].probability = JNull /\ out_connections[i].condition = JNull

\* C5 witness: a connection with the integer probability 1 went through
\* both conversions.
C5_Witness ==
    /\ Reversed
    /\ Len(connections) = 1
    /\ connections[1].probability = JInt(1)
    /\ ~bpmn.flows[1].cond

NodeIds == {bpmn.nodes[i].id : i \in 1..Len(bpmn.nodes)}
ShapeIds == {bpmn.shapes[i].bpmnElement : i \in 1..Len(bpmn.shapes)}

\* C8 as stated: N elements give N BPMNShapes, each referencing a distinct
\* node, with one node per element and one sequenceFlow per connection; the
\* scenario gives 4 shapes and 3 edges.  Stated here for the lists the claim
\* is most likely to hold for, those whose element ids are pairwise different.
C8_OneShapePerElement ==
    Converted /\ (\A i, j \in 1..Len(elements) : i # j => elements[i].id # elements[j].id) =>
        /\ Len(bpmn.shapes) = Len(elements)
        /\ \A i, j \in 1..Len(bpmn.shapes) : i # j => bpmn.shapes[i].bpmnElement # bpmn.shapes[j].bpmnElement
        /\ ShapeIds \subseteq NodeIds
        /\ Len(bpmn.nodes) = Len(elements)
        /\ Len(bpmn.flows) = Len(connections)
        /\ elements = ScenarioElements /\ connections = ScenarioConnections =>
              Len(bpmn.shapes) = 4 /\ Len(bpmn.edges) = 3

\* C8 amended: the DI section holds one BPMNShape per distinct sanitised
\* element id (N shapes when the N sanitised ids are pairwise distinct),
\* each referencing a distinct node; the process body holds one node per
\* element and one sequenceFlow per connection; the scenario gives 4 shapes
\* and 3 edges.
C8_OneShapePerDistinctId ==
    Converted =>
        /\ Len(bpmn.shapes) = Cardinality(NodeIds)
        /\ \A i, j \in 1..Len(bpmn.shapes) : i # j => bpmn.shapes[i].bpmnElement # bpmn.shapes[j].bpmnElement
        /\ ShapeIds = NodeIds
        /\ Len(bpmn.nodes) = Len(elements)
        /\ Len(bpmn.flows) = Len(connections)
        /\ elements = ScenarioElements /\ connections = ScenarioConnections =>
              Len(bpmn.shapes) = 4 /\ Len(bpmn.edges) = 3

\* C8 witness: three or more elements, two of which share a sanitised id,
\* were converted.
C8_Witness ==
    /\ Converted
    /\ Len(elements) >= 3
    /\ Len(bpmn.shapes) < Len(elements)
    /\ Len(bpmn.shapes) >= 2

RawIds == {elements[i].id.s : i \in 1..Len(elements)}

EdgeFor(i) == \E e \in 1..Len(bpmn.edges) : bpmn.edges[e].bpmnElement = bpmn.flows[i].id

\* C9 as stated: a connection whose fromId or toId equals the id of no
\* element gets no BPMNEdge while its sequenceFlow is present, and a
\* BPMNEdge is written only for a connection whose two ends have a shape.
C9_DanglingByRawId ==
    Converted =>
        /\ Len(bpmn.flows) = Len(connections)
        /\ \A i \in 1..Len(connections) :
              connections[i].fromId.s \notin RawIds \/ connections[i].toId.s \notin RawIds => ~EdgeFor(i)
        /\ \A e \in 1..Len(bpmn.edges) :
              \E i \in 1..Len(bpmn.flows) :
                  /\ bpmn.flows[i].id = bpmn.edges[e].bpmnElement
                  /\ bpmn.flows[i].sourceRef \in ShapeIds
                  /\ bpmn.flows[i].targetRef \in ShapeIds

\* C9 amended: a connection whose sanitised fromId or toId equals the
\* sanitised id of no element gets no BPMNEdge while its sequenceFlow is
\* present, and a BPMNEdge is written only for a connection whose two ends
\* have a shape.
C9_DanglingBySanitisedId ==
    Converted =>
        /\ Len(bpmn.flows) = Len(connections)
        /\ \A i \in 1..Len(connections) :
              \/ make_xml_safe_id(connections[i].fromId.s) \notin {make_xml_safe_id(r) : r \in RawIds}
              \/ make_xml_safe_id(connections[i].toId.s) \notin {make_xml_safe_id(r) : r \in RawIds}
              => ~EdgeFor(i)
        /\ \A e \in 1..Len(bpmn.edges) :
              \E i \in 1..Len(bpmn.flows) :
                  /\ bpmn.flows[i].id = bpmn.edges[e].bpmnElement
                  /\ bpmn.flows[i].sourceRef \in ShapeIds
                  /\ bpmn.flows[i].targetRef \in ShapeIds

\* C9 witness: of two connections one is dangling and has no edge, the
\* other has its edge.
C9_Witness ==
    /\ Converted
    /\ Len(connections) = 2
    /\ Len(bpmn.edges) = 1
    /\ \E i \in 1..2 : connections[i].toId.s = <<"z", "z">> /\ ~EdgeFor(i)

NoLayoutEntry(i) == bpmn.nodes[i].id \notin DOMAIN layout_map(layout)

\* the least c >= 1 with c * c >= n
CeilSqrt(n) == CHOOSE c \in 1..(n + 1) : c * c >= n /\ \A b \in 1..(c - 1) : b * b < n

RecordsOf(i) == {j \in 1..Len(out_elements) : out_elements[j].id = make_xml_safe_id(pystr(elements[i].id))}

\* record j holds key with a value of the same type that is equal
Holds(j, key, value) ==
    \E n \in 1..Len(out_elements[j].fields) :
        out_elements[j].fields[n][1] = key /\ out_elements[j].fields[n][2] = value

\* C11, for the fields least in doubt: after convert and convert_bpmn_to_json,
\* every element field other than id, name and type whose key make_xml_safe_id
\* leaves alone (and no other key of the element is rewritten to it) and whose
\* value is an integer, a float or a boolean is held by the element's record
\* under the same key with an equal value of the same type.
C11_PropertyRoundTrip ==
    Reversed =>
        \A i \in 1..Len(elements) :
            \A f \in 1..Len(elements[i].fields) :
                LET key == elements[i].fields[f][1]
                    v == elements[i].fields[f][2]
                IN  /\ SafeIdValid(key)
                    /\ \A g \in 1..Len(elements[i].fields) :
                          g # f => make_xml_safe_id(elements[i].fields[g][1]) # key
                    /\ v.k \in {"int", "float", "bool"}
                    => \E j \in RecordsOf(i) : Holds(j, key, v)

RequiredFileBad == files.elements # "ok" \/ files.connections # "ok"
Raised == pc = "raised"
Completed == pc \in {"converted", "reversed", "parse_error"} /\ output = "file"

\* C12 as stated, an id being a string: once convert has run, (a) it has
\* raised only if the elements or connections file is absent or unparsable or
\* an element or connection record lacks id; (b) with both files parsed and
\* an id in every record, whatever other fields are missing and whatever the
\* state of the variables and layout files, it has completed and written the
\* output file; (c) if it has raised, no output file was written.
C12_RaisesOnlyWithoutId ==
    pc # "start" =>
        LET NoId == \/ \E i \in 1..Len(elements) : elements[i].id.k = "absent"
                    \/ \E i \in 1..Len(connections) : connections[i].id.k # "str"
        IN  /\ Raised => RequiredFileBad \/ NoId
            /\ ~RequiredFileBad /\ ~NoId => Completed
            /\ Raised => output # "file"

\* a connection record convert cannot write: no id, an id that is not a
\* string, no fromId or no toId
Unwritable(c) == c.id.k # "str" \/ c.fromId.k = "absent" \/ c.toId.k = "absent"

\* C12, amended: once convert has run, (a) it has raised only if the elements
\* or connections file is absent or unparsable, an element record lacks id,
\* or a connection record lacks id, fromId or toId or has an id that is not a
\* string; (b) with both files parsed, an id in every element record and a
\* string id, a fromId and a toId in every connection record, whatever other
\* fields are missing and whatever the state of the variables and layout
\* files, it has completed and written the output file; (c) if it has raised,
\* no output file was written.
C12_RaisesOnlyWithoutIdOrEnds ==
    pc # "start" =>
        LET Bad == \/ \E i \in 1..Len(elements) : elements[i].id.k = "absent"
                   \/ \E i \in 1..Len(connections) : Unwritable(connections[i])
        IN  /\ Raised => RequiredFileBad \/ Bad
            /\ ~RequiredFileBad /\ ~Bad => Completed
            /\ Raised => output # "file"

\* convert has completed on an element without name and type and a connection
\* without probability, the variables and layout files being absent
C12_Witness ==
    /\ Completed
    /\ files.variables = "absent"
    /\ files.layout = "absent"
    /\ \E i \in 1..Len(elements) : elements[i].name.k = "absent" /\ elements[i].type.k = "absent"
    /\ \E i \in 1..Len(connections) : connections[i].probability.k = "absent"

\* C13: once convert has completed on elements whose sanitised ids are
\* pairwise different, every element whose id (as the input spells it) has an
\* entry in the layout input (a list entry with direct x/y, nested position or
\* nested bounds, or a flat id-keyed entry when no list entry resolves) has a
\* BPMNShape with that entry's x and y, also when make_xml_safe_id rewrites
\* the id, and every element with no entry for its id has a BPMNShape at its
\* grid place.
C13_LayoutHonoured ==
    Converted /\ (\A i, j \in 1..Len(elements) : i # j => bpmn.nodes[i].id # bpmn.nodes[j].id) =>
        LET N == Len(elements)
            C == CeilSqrt(N)
            entries == layout_map(loaded_layout(files, layout))
        IN  \A i \in 1..N :
                LET raw == pystr(elements[i].id)
                    place == IF raw \in DOMAIN entries
                             THEN entries[raw]
                             ELSE <<100 + ((i - 1) % C) * 200, 100 + ((i - 1) \div C) * 150>>
                IN  \E k \in 1..Len(bpmn.shapes) :
                        /\ bpmn.shapes[k].bpmnElement = bpmn.nodes[i].id
                        /\ <<bpmn.shapes[k].bounds.x, bpmn.shapes[k].bounds.y>> = place

====
